---- MODULE Spec2Model ----
(***************************************************************************)
(* Model of the Skirmish registration / deck-submission bot (src/index.js). *)
(*                                                                         *)
(* The process holds one registry object `state` (config + player map),    *)
(* loaded once at start and written to disk by saveData.  Every gateway    *)
(* interaction runs one async handler.  Handlers run on a single thread    *)
(* and interleave only at their await points.  Every handler except        *)
(* handleSubmit performs all of its reads and writes of `state` before its *)
(* first await, so it is one atomic step.  handleSubmit awaits the channel *)
(* fetch between its precondition checks and its mutation, so it is two    *)
(* steps: SubmitBegin and SubmitResume.  The member's permissions arrive    *)
(* with each interaction (interaction.memberPermissions), so they are an   *)
(* input of the step, not state of the process.                            *)
(*                                                                         *)
(* Strings are sequences of one-character strings, so that trim() is       *)
(* computed.  An optional value (null or a value) is a sequence of length  *)
(* 0 or 1.                                                                 *)
(***************************************************************************)
EXTENDS Naturals, Sequences, FiniteSets, TLC

VARIABLES state, disk, inflight, prompts, last, lin

vars == <<state, disk, inflight, prompts, last, lin>>

----------------------------------------------------------------------------
(* Bounds of the model *)

\* submit handlers that may be suspended at the channel fetch at one time
MaxInflight == 1

\* bulk-clear prompts that show their buttons at one time
MaxPrompts == 1

\* submit handlers of one member that may be suspended at one time, where the
\* overlap of a member's own submits is looked at
MaxOverlap == 2

----------------------------------------------------------------------------
(* Inputs *)

Users == {"u1", "u2"}

Channels == {"c1", "c2"}

\* display_name option values as typed; trim() maps them to "" and "A"
RawNames == {<<" ">>, <<"A", " ">>}

\* link option values as typed; trim() maps it to "x"
RawLinks == {<<" ", "x", " ">>}

\* what guild.channels.fetch(id).catch(() => null) can resolve to
FetchResults == {"text", "other", "null"}

Null == << >>

Some(v) == <<v>>

\* JavaScript truthiness of an optional string: neither null nor ""
Truthy(o) == o # Null /\ o[1] # << >>

----------------------------------------------------------------------------
(* Pure helpers *)

RECURSIVE TrimStart(_)
TrimStart(s) ==
    IF s # << >> /\ Head(s) = " " THEN TrimStart(Tail(s)) ELSE s

RECURSIVE TrimEnd(_)
TrimEnd(s) ==
    IF s # << >> /\ s[Len(s)] = " " THEN TrimEnd(SubSeq(s, 1, Len(s) - 1)) ELSE s

\* String.prototype.trim
Trim(s) == TrimEnd(TrimStart(s))

createEmptyPlayer ==
    [displayName |-> Null, deckLink |-> Null,
     deckSubmitted |-> FALSE, deckReviewed |-> FALSE]

\* the empty-default registry loadData returns when there is no document
EmptyRegistry == [submissionsChannelId |-> Null, players |-> << >>]

\* the document saveData writes for registry `data`
SavedDoc(data) ==
    [submissionsChannelId |-> data.submissionsChannelId, players |-> data.players]

\* the player map after getOrCreatePlayer(userId)
GetOrCreatePlayer(players, userId) ==
    IF userId \in DOMAIN players
    THEN players
    ELSE players @@ (userId :> createEmptyPlayer)

MOD_ROLE_IDS == {}

\* the roles the gateway reports for a member
MemberRoles(userId) == IF userId = "u2" THEN {"r1"} ELSE {}

\* isMod with the gate left open
isModAlways(hasManageGuild, memberRoles) == TRUE

isMod(hasManageGuild, memberRoles) ==
    \/ hasManageGuild
    \/ (MOD_ROLE_IDS # {} /\ (memberRoles \cap MOD_ROLE_IDS) # {})

\* isMod(interaction), lines 206-223: the interaction carries the member's
\* permissions (memberPermissions) and roles as the guild has them at that moment
IsMod(userId, hasManageGuild) == isMod(hasManageGuild, MemberRoles(userId))

NoNote == << >>

\* What a step showed the outside: the handler that ran (op), who invoked it
\* (actor), whether the interaction carried the Manage Guild permission (mod),
\* the identity it was about (target), the reply the invoker got (result), the
\* prompt it was about (pid, 0: none), the link of a submit (link), the
\* notification delivered to the submissions channel (note) and the call that
\* threw into the dispatcher's catch, lines 267-275 (threw).
ModReply(op, actor, hasManageGuild, target, result) ==
    [op |-> op, actor |-> actor, mod |-> hasManageGuild, target |-> target,
     result |-> result, pid |-> 0, link |-> Null, note |-> NoNote,
     threw |-> "none"]

Reply(op, actor, target, result) == ModReply(op, actor, FALSE, target, result)

----------------------------------------------------------------------------
(* Record updates made by the handlers *)

\* handleConnect appending to the stored name instead of assigning it
ConnectEffectAppending(player, displayName) ==
    [player EXCEPT !.displayName =
        Some((IF @ = Null THEN << >> ELSE @[1]) \o displayName)]

\* handleConnect, line 285
ConnectEffect(player, displayName) ==
    [player EXCEPT !.displayName = Some(displayName)]

\* handleSubmit, lines 325-327
SubmitEffect(player, link) ==
    [player EXCEPT !.deckLink = Some(link),
                   !.deckSubmitted = TRUE,
                   !.deckReviewed = FALSE]

\* handleReviewed, line 404
ReviewedEffect(player, reviewed) ==
    [player EXCEPT !.deckReviewed = reviewed]

\* handleRemove without the reset of deckReviewed (line 429 dropped)
RemoveEffectKeepReview(player) ==
    [player EXCEPT !.deckLink = Null,
                   !.deckSubmitted = FALSE]

\* handleRemove, lines 427-429
RemoveEffect(player) ==
    [player EXCEPT !.deckLink = Null,
                   !.deckSubmitted = FALSE,
                   !.deckReviewed = FALSE]

\* handleRemove taking every target to have a deck on file
HadDeckAlways(player) == TRUE

\* handleRemove, line 425
HadDeck(player) == player.deckSubmitted \/ Truthy(player.deckLink)

\* the embed field "RPN Display Name", line 339
EmbedName(player) ==
    IF Truthy(player.displayName) THEN player.displayName[1] ELSE <<"_not set_">>

\* the custom id of a prompt button, lines 452 and 457, as its "_"-separated parts
CustomId(action, ownerId) == <<"skirmish", "clear", action, ownerId>>

\* handleButton without the owner check (lines 481-487 dropped)
ButtonOutcomeNoOwnerCheck(userId, parts, mod) ==
    IF parts[1] # "skirmish" \/ parts[2] # "clear" THEN "NO_REPLY"
    ELSE IF ~mod THEN "UNAUTHORIZED"
    ELSE IF parts[3] = "confirm" THEN "CLEARED"
    ELSE IF parts[3] = "cancel" THEN "CANCELLED"
    ELSE "NO_REPLY"

\* handleButton without the permission re-check (lines 489-495 dropped)
ButtonOutcomeNoRecheck(userId, parts, mod) ==
    IF parts[1] # "skirmish" \/ parts[2] # "clear" THEN "NO_REPLY"
    ELSE IF userId # parts[4] THEN "IDENTITY_MISMATCH"
    ELSE IF parts[3] = "confirm" THEN "CLEARED"
    ELSE IF parts[3] = "cancel" THEN "CANCELLED"
    ELSE "NO_REPLY"

\* handleButton's decision, lines 475-510, for the parts of the custom id
ButtonOutcome(userId, parts, mod) ==
    IF parts[1] # "skirmish" \/ parts[2] # "clear" THEN "NO_REPLY"
    ELSE IF userId # parts[4] THEN "IDENTITY_MISMATCH"
    ELSE IF ~mod THEN "UNAUTHORIZED"
    ELSE IF parts[3] = "confirm" THEN "CLEARED"
    ELSE IF parts[3] = "cancel" THEN "CANCELLED"
    ELSE "NO_REPLY"

----------------------------------------------------------------------------
(* Initial state: no document on disk, so loadData returns the empty registry *)

Init ==
    /\ state = EmptyRegistry
    /\ disk = EmptyRegistry
    /\ inflight = << >>
    /\ prompts = << >>
    /\ last = Reply("start", "u1", "u1", "OK")
    /\ lin = {}

----------------------------------------------------------------------------
(* What each handler does to a registry `reg`: the registry it leaves, the  *)
(* reply it gives and whether it called saveData.                           *)

Outcome(reg, result, saved) == [reg |-> reg, result |-> result, saved |-> saved]

\* handleConnect, lines 280-292
ConnectStep(reg, userId, raw) ==
    LET players1 == GetOrCreatePlayer(reg.players, userId)
    IN Outcome([reg EXCEPT !.players =
                   [players1 EXCEPT ![userId] = ConnectEffect(@, Trim(raw))]],
               "OK", TRUE)

\* handleSubmit up to the channel fetch, lines 294-316; PENDING: the handler
\* has called guild.channels.fetch and is suspended
SubmitCheckStep(reg, userId) ==
    LET players1 == GetOrCreatePlayer(reg.players, userId)
        reg1 == [reg EXCEPT !.players = players1]
    IN IF ~Truthy(players1[userId].displayName)
       THEN Outcome(reg1, "NOT_CONNECTED", FALSE)
       ELSE IF reg.submissionsChannelId = Null
       THEN Outcome(reg1, "NO_CHANNEL_CONFIGURED", FALSE)
       ELSE Outcome(reg1, "PENDING", FALSE)

\* handleSetSubmissions, lines 355-381
SetSubmissionsStep(reg, mod, channelId, isText) ==
    IF ~mod THEN Outcome(reg, "UNAUTHORIZED", FALSE)
    ELSE IF ~isText THEN Outcome(reg, "WRONG_CHANNEL_TYPE", FALSE)
    ELSE Outcome([reg EXCEPT !.submissionsChannelId = Some(channelId)], "OK", TRUE)

\* handleReviewed marking every submitted deck instead of the target's
ReviewedStepAll(reg, mod, target, reviewed) ==
    LET players1 == GetOrCreatePlayer(reg.players, target)
    IN IF ~mod THEN Outcome(reg, "UNAUTHORIZED", FALSE)
       ELSE IF ~players1[target].deckSubmitted
       THEN Outcome([reg EXCEPT !.players = players1], "NOT_SUBMITTED", FALSE)
       ELSE Outcome([reg EXCEPT !.players =
                       [u \in DOMAIN players1 |->
                          IF players1[u].deckSubmitted
                          THEN ReviewedEffect(players1[u], reviewed)
                          ELSE players1[u]]],
                    "OK", TRUE)

\* handleReviewed, lines 383-411
ReviewedStep(reg, mod, target, reviewed) ==
    LET players1 == GetOrCreatePlayer(reg.players, target)
    IN IF ~mod THEN Outcome(reg, "UNAUTHORIZED", FALSE)
       ELSE IF ~players1[target].deckSubmitted
       THEN Outcome([reg EXCEPT !.players = players1], "NOT_SUBMITTED", FALSE)
       ELSE Outcome([reg EXCEPT !.players =
                       [players1 EXCEPT ![target] = ReviewedEffect(@, reviewed)]],
                    "OK", TRUE)

\* handleRemove deleting the target's key instead of resetting its record
RemoveStepDeleting(reg, mod, target) ==
    IF ~mod THEN Outcome(reg, "UNAUTHORIZED", FALSE)
    ELSE Outcome([reg EXCEPT !.players =
                    [u \in DOMAIN reg.players \ {target} |-> reg.players[u]]],
                 IF target \in DOMAIN reg.players /\ HadDeck(reg.players[target])
                 THEN "REMOVED" ELSE "NOTHING_TO_REMOVE",
                 TRUE)

\* handleRemove, lines 413-438
RemoveStep(reg, mod, target) ==
    LET players1 == GetOrCreatePlayer(reg.players, target)
    IN IF ~mod THEN Outcome(reg, "UNAUTHORIZED", FALSE)
       ELSE Outcome([reg EXCEPT !.players =
                       [players1 EXCEPT ![target] = RemoveEffect(@)]],
                    IF HadDeck(players1[target]) THEN "REMOVED" ELSE "NOTHING_TO_REMOVE",
                    TRUE)

\* handleList, lines 514-565: reads the registry, changes nothing
ListStep(reg, mod) ==
    Outcome(reg,
            IF ~mod THEN "UNAUTHORIZED"
            ELSE IF DOMAIN reg.players = {} THEN "EMPTY_LIST"
            ELSE "LIST",
            FALSE)

\* handleClear, lines 441-469: replies with the prompt, changes nothing
ClearStep(reg, mod) ==
    Outcome(reg, IF ~mod THEN "UNAUTHORIZED" ELSE "PROMPTED", FALSE)

\* handleButton, lines 472-511, for the parts of the pressed button's custom id
ButtonStep(reg, userId, mod, parts) ==
    LET outcome == ButtonOutcome(userId, parts, mod)
    IN IF outcome = "CLEARED"
       THEN Outcome([reg EXCEPT !.players = << >>], outcome, TRUE)
       ELSE Outcome(reg, outcome, FALSE)

\* the document on disk after a handler's step
Disk(out) == IF out.saved THEN SavedDoc(out.reg) ELSE disk

----------------------------------------------------------------------------
(* Handlers *)

\* /skirmish connect
HandleConnect(userId, raw) ==
    LET out == ConnectStep(state, userId, raw)
    IN /\ state' = out.reg
       /\ disk' = Disk(out)
       /\ last' = Reply("connect", userId, userId, out.result)
       /\ UNCHANGED <<inflight, prompts>>

SubmitReply(userId, link, result) ==
    [Reply("submit", userId, userId, result) EXCEPT !.link = Some(link)]

\* /skirmish submit up to the await of the channel fetch, lines 294-316, while
\* fewer than max submits are suspended
SubmitBeginUpTo(userId, raw, max) ==
    LET link == Trim(raw)
        out == SubmitCheckStep(state, userId)
    IN /\ state' = out.reg
       /\ disk' = Disk(out)
       /\ last' = SubmitReply(userId, link, out.result)
       /\ UNCHANGED prompts
       /\ IF out.result = "PENDING"
          THEN /\ Len(inflight) < max
               /\ inflight' = Append(inflight,
                      [userId |-> userId, link |-> link,
                       channelId |-> state.submissionsChannelId[1],
                       live |-> TRUE, held |-> Null])
          ELSE UNCHANGED inflight

SubmitBegin(userId, raw) == SubmitBeginUpTo(userId, raw, MaxInflight)

RemoveAt(seq, i) == SubSeq(seq, 1, i - 1) \o SubSeq(seq, i + 1, Len(seq))

\* the record object a suspended submit holds (`player`, line 297): the
\* registry's record while that object is still in the map; once the map has been
\* replaced (line 498) an object no longer in any map, of which only the
\* displayName is ever read again (line 339)
HeldPlayer(call) ==
    IF call.live
    THEN state.players[call.userId]
    ELSE [createEmptyPlayer EXCEPT !.displayName = call.held]

\* the notification handleSubmit sends to the fetched channel, lines 334-345
Notification(channelId, userId, player, link) ==
    [channelId |-> channelId, userId |-> userId,
     displayName |-> EmbedName(player), link |-> link]

\* /skirmish submit from the resolution of the channel fetch on, lines 316-351;
\* sendOk: whether channel.send resolved or rejected.  The handler awaits the
\* send (line 345) and then only replies: nothing after the call of send reads
\* or writes the registry, so the send and the reply are part of this step.
SubmitResume(i, fetched, sendOk) ==
    LET call == inflight[i]
        player == SubmitEffect(HeldPlayer(call), call.link)
    IN /\ inflight' = RemoveAt(inflight, i)
       /\ UNCHANGED prompts
       /\ IF fetched # "text"
          THEN /\ last' = SubmitReply(call.userId, call.link, "INVALID_CHANNEL")
               /\ UNCHANGED <<state, disk>>
          ELSE /\ state' = IF call.live
                           THEN [state EXCEPT !.players[call.userId] = player]
                           ELSE state
               /\ disk' = SavedDoc(state')
               /\ last' = IF sendOk
                          THEN [SubmitReply(call.userId, call.link, "OK")
                                EXCEPT !.note = Some(Notification(
                                  call.channelId, call.userId, player, call.link))]
                          ELSE [SubmitReply(call.userId, call.link, "ERROR")
                                EXCEPT !.threw = "send"]

\* /skirmish setsubmissions
HandleSetSubmissions(userId, perm, channelId, isText) ==
    LET out == SetSubmissionsStep(state, IsMod(userId, perm), channelId, isText)
    IN /\ state' = out.reg
       /\ disk' = Disk(out)
       /\ last' = ModReply("setsubmissions", userId, perm, userId, out.result)
       /\ UNCHANGED <<inflight, prompts>>

\* /skirmish reviewed
HandleReviewed(userId, perm, target, reviewed) ==
    LET out == ReviewedStep(state, IsMod(userId, perm), target, reviewed)
    IN /\ state' = out.reg
       /\ disk' = Disk(out)
       /\ last' = ModReply("reviewed", userId, perm, target, out.result)
       /\ UNCHANGED <<inflight, prompts>>

\* /skirmish remove
HandleRemove(userId, perm, target) ==
    LET out == RemoveStep(state, IsMod(userId, perm), target)
    IN /\ state' = out.reg
       /\ disk' = Disk(out)
       /\ last' = ModReply("remove", userId, perm, target, out.result)
       /\ UNCHANGED <<inflight, prompts>>

\* /skirmish list
HandleList(userId, perm) ==
    LET out == ListStep(state, IsMod(userId, perm))
    IN /\ state' = out.reg
       /\ disk' = Disk(out)
       /\ last' = ModReply("list", userId, perm, userId, out.result)
       /\ UNCHANGED <<inflight, prompts>>

\* /skirmish clear; prompts holds the prompt messages that still show their
\* buttons
HandleClear(userId, perm) ==
    LET out == ClearStep(state, IsMod(userId, perm))
    IN /\ state' = out.reg
       /\ disk' = Disk(out)
       /\ UNCHANGED inflight
       /\ IF out.result = "PROMPTED"
          THEN /\ Len(prompts) < MaxPrompts
               /\ prompts' = Append(prompts, [owner |-> userId, status |-> "pending"])
               /\ last' = [ModReply("clear", userId, perm, userId, out.result)
                           EXCEPT !.pid = Len(prompts) + 1]
          ELSE /\ UNCHANGED prompts
               /\ last' = ModReply("clear", userId, perm, userId, out.result)

\* the suspended submits after the player map has been replaced: the record
\* each one holds is no longer the registry's
Orphaned(calls) ==
    [i \in DOMAIN calls |->
        IF calls[i].live
        THEN [calls[i] EXCEPT !.live = FALSE,
                              !.held = state.players[calls[i].userId].displayName]
        ELSE calls[i]]

\* handleButton calling interaction.update in its rejecting branches as well
ResolvesAlways(result) == TRUE

\* the outcomes of handleButton whose branch calls interaction.update with
\* components: [] (lines 501-504, 506-509); the rejecting branches only reply
Resolves(result) == result \in {"CLEARED", "CANCELLED"}

\* a press of a button of prompt pid.  The gateway delivers a press as long as
\* the prompt still shows its buttons: until the interaction.update of a
\* resolution (lines 501, 506) has taken effect.
HandleButton(userId, perm, pid, action) ==
    LET parts == CustomId(action, prompts[pid].owner)
        out == ButtonStep(state, userId, IsMod(userId, perm), parts)
    IN /\ prompts[pid].status \in {"pending", "resolving"}
       /\ state' = out.reg
       /\ disk' = Disk(out)
       /\ last' = [ModReply(action, userId, perm, parts[4], out.result)
                   EXCEPT !.pid = pid]
       /\ inflight' = IF out.result = "CLEARED" THEN Orphaned(inflight) ELSE inflight
       /\ prompts' = IF Resolves(out.result)
                     THEN [prompts EXCEPT ![pid].status = "resolving"]
                     ELSE prompts

\* the gateway applies a resolution's interaction.update (components: []):
\* the prompt no longer has buttons
UpdateLands(pid) ==
    /\ prompts[pid].status = "resolving"
    /\ prompts' = RemoveAt(prompts, pid)
    /\ last' = [Reply("update", prompts[pid].owner, prompts[pid].owner, "OK")
                EXCEPT !.pid = pid]
    /\ UNCHANGED <<state, disk, inflight>>

\* subcommands the dispatcher has no case for
OtherSubs == {"allow"}

\* the dispatcher's default branch, lines 261-262: no handler, no reply
DispatchDefault(sub, userId, perm) ==
    /\ last' = ModReply(sub, userId, perm, userId, "NO_REPLY")
    /\ UNCHANGED <<state, disk, inflight, prompts>>

----------------------------------------------------------------------------

Next ==
    \/ \E u \in Users, raw \in RawNames : HandleConnect(u, raw) /\ UNCHANGED lin
    \/ \E u \in Users, raw \in RawLinks : SubmitBegin(u, raw) /\ UNCHANGED lin
    \/ \E i \in DOMAIN inflight, f \in FetchResults, ok \in BOOLEAN :
          SubmitResume(i, f, ok) /\ UNCHANGED lin
    \/ \E u \in Users, perm \in BOOLEAN, c \in Channels, isText \in BOOLEAN :
          HandleSetSubmissions(u, perm, c, isText) /\ UNCHANGED lin
    \/ \E u \in Users, perm \in BOOLEAN, t \in Users, r \in BOOLEAN :
          HandleReviewed(u, perm, t, r) /\ UNCHANGED lin
    \/ \E u \in Users, perm \in BOOLEAN, t \in Users :
          HandleRemove(u, perm, t) /\ UNCHANGED lin
    \/ \E u \in Users, perm \in BOOLEAN : HandleList(u, perm) /\ UNCHANGED lin
    \/ \E u \in Users, perm \in BOOLEAN : HandleClear(u, perm) /\ UNCHANGED lin
    \/ \E u \in Users, perm \in BOOLEAN, pid \in DOMAIN prompts,
          a \in {"confirm", "cancel"} : HandleButton(u, perm, pid, a) /\ UNCHANGED lin
    \/ \E pid \in DOMAIN prompts : UpdateLands(pid) /\ UNCHANGED lin
    \/ \E u \in Users, perm \in BOOLEAN, sub \in OtherSubs :
          DispatchDefault(sub, u, perm) /\ UNCHANGED lin

Spec == Init /\ [][Next]_vars

----------------------------------------------------------------------------
(* Sequential executions.                                                  *)
(*                                                                         *)
(* While submits are suspended, lin holds every outcome that a sequential  *)
(* execution of the operations delivered so far can have, where each       *)
(* suspended submit runs as a whole (lines 294-351 without interruption) at *)
(* some point after its delivery and every other operation runs in the     *)
(* order it ran.  An element of lin is the registry of that execution and,  *)
(* for each suspended submit, whether it has run in it yet, how the gateway *)
(* answered it there (done) and the notification it sent (note).           *)

\* how the gateway answers the submit's calls: the fetch resolves to no text
\* channel; channel.send rejects; channel.send resolves
GatewayAnswers == {"invalid", "fail", "sent"}

NotRun == [done |-> "pending", note |-> NoNote]

\* handleSubmit, lines 294-351, run as a whole on c.reg for the suspended
\* submit inflight[i], the gateway answering `answer`
RunSubmit(c, i, answer) ==
    LET call == inflight[i]
        chk == SubmitCheckStep(c.reg, call.userId)
        player == SubmitEffect(chk.reg.players[call.userId], call.link)
    IN IF chk.result # "PENDING"
       THEN [reg |-> chk.reg,
             calls |-> [c.calls EXCEPT ![i] = [done |-> "pre", note |-> NoNote]]]
       ELSE IF answer = "invalid"
       THEN [reg |-> chk.reg,
             calls |-> [c.calls EXCEPT ![i] = [done |-> answer, note |-> NoNote]]]
       ELSE [reg |-> [chk.reg EXCEPT !.players[call.userId] = player],
             calls |-> [c.calls EXCEPT ![i] =
                 [done |-> answer,
                  note |-> IF answer = "sent"
                           THEN Some(Notification(chk.reg.submissionsChannelId[1],
                                                  call.userId, player, call.link))
                           ELSE NoNote]]]

RunOne(L) ==
    L \cup UNION {{RunSubmit(c, i, a) :
                     i \in {k \in DOMAIN c.calls : c.calls[k].done = "pending"},
                     a \in GatewayAnswers} : c \in L}

RECURSIVE RunSome(_, _)
RunSome(L, n) == IF n = 0 THEN L ELSE RunSome(RunOne(L), n - 1)

\* L with any of the suspended submits run, in any order
Linearize(L) == RunSome(L, Len(inflight))

\* lin after an operation that runs as one step and takes registry r to F(r)
LinAtomic(F(_)) ==
    IF inflight = << >> THEN {}
    ELSE {[c EXCEPT !.reg = F(c.reg)] : c \in Linearize(lin)}

\* lin after the first half of a submit
LinBegin(userId) ==
    IF SubmitCheckStep(state, userId).result # "PENDING"
    THEN LinAtomic(LAMBDA r : SubmitCheckStep(r, userId).reg)
    ELSE IF inflight = << >>
    THEN {[reg |-> state, calls |-> <<NotRun>>]}
    ELSE {[c EXCEPT !.calls = Append(@, NotRun)] : c \in lin}

\* lin after the second half of submit i: the sequential executions in which
\* that submit sent the notification it has sent now and, once no submit is
\* suspended any more, whose registry is the registry now
LinResume(i, fetched, sendOk) ==
    LET answer == IF fetched # "text" THEN "invalid"
                  ELSE IF sendOk THEN "sent" ELSE "fail"
        same == {c \in Linearize(lin) :
                    /\ c.calls[i].done \in {"pre", answer}
                    /\ c.calls[i].note = last'.note}
        rest == {[c EXCEPT !.calls = RemoveAt(@, i)] : c \in same}
    IN IF Len(inflight) = 1 THEN {c \in rest : c.reg = state'} ELSE rest

\* the member who issues the gated operations in NextLin
Moderator == "u2"

\* the operations of C8 as the gateway delivers them, the gated ones to a
\* privileged moderator, with the sequential executions followed in lin
NextLin ==
    \/ \E u \in Users, raw \in RawNames :
          /\ HandleConnect(u, raw)
          /\ lin' = LinAtomic(LAMBDA r : ConnectStep(r, u, raw).reg)
    \/ \E u \in Users, raw \in RawLinks :
          /\ SubmitBegin(u, raw)
          /\ lin' = LinBegin(u)
    \/ \E i \in DOMAIN inflight, f \in FetchResults, ok \in BOOLEAN :
          /\ SubmitResume(i, f, ok)
          /\ lin' = LinResume(i, f, ok)
    \/ \E c \in Channels :
          /\ HandleSetSubmissions(Moderator, TRUE, c, TRUE)
          /\ lin' = LinAtomic(LAMBDA r : SetSubmissionsStep(r, TRUE, c, TRUE).reg)
    \/ \E t \in Users :
          /\ HandleRemove(Moderator, TRUE, t)
          /\ lin' = LinAtomic(LAMBDA r : RemoveStep(r, TRUE, t).reg)
    \/ /\ HandleClear(Moderator, TRUE)
       /\ lin' = LinAtomic(LAMBDA r : ClearStep(r, TRUE).reg)
    \/ \E pid \in DOMAIN prompts :
          /\ HandleButton(Moderator, TRUE, pid, "confirm")
          /\ lin' = LinAtomic(LAMBDA r :
                 ButtonStep(r, Moderator, TRUE,
                            CustomId("confirm", prompts[pid].owner)).reg)
    \/ \E pid \in DOMAIN prompts :
          /\ UpdateLands(pid)
          /\ lin' = LinAtomic(LAMBDA r : r)

SpecLin == Init /\ [][NextLin]_vars

----------------------------------------------------------------------------
(* Failure of the store.                                                   *)
(*                                                                         *)
(* saveData (lines 66-73) calls fs.writeFileSync without a try: when the   *)
(* write fails it throws into the handler, no handler catches it, and the  *)
(* exception reaches the dispatcher's catch (lines 267-275).  The handler  *)
(* has made its change to `state` before it calls saveData and nothing     *)
(* after the call runs: no notification, no reply of the handler, no       *)
(* interaction.update.                                                     *)

\* the dispatcher's catch, lines 267-275: whatever call threw, the invoker is
\* answered "Something went wrong handling that interaction."
Caught(reply, call) == [reply EXCEPT !.result = "ERROR", !.threw = call]

\* a handler that reaches its call of saveData, which throws
SaveFails(out, reply) ==
    /\ out.saved
    /\ state' = out.reg
    /\ UNCHANGED disk
    /\ last' = Caught(reply, "save")

\* handleConnect, line 286 throwing
ConnectSaveFails(userId, raw) ==
    /\ SaveFails(ConnectStep(state, userId, raw),
                 Reply("connect", userId, userId, "OK"))
    /\ UNCHANGED <<inflight, prompts>>

\* handleSubmit, line 328 throwing: the record has been written (325-327),
\* channel.send (345) is never called
SubmitSaveFails(i) ==
    LET call == inflight[i]
        player == SubmitEffect(HeldPlayer(call), call.link)
    IN /\ inflight' = RemoveAt(inflight, i)
       /\ state' = IF call.live
                   THEN [state EXCEPT !.players[call.userId] = player]
                   ELSE state
       /\ last' = Caught(SubmitReply(call.userId, call.link, "OK"), "save")
       /\ UNCHANGED <<disk, prompts>>

\* handleSetSubmissions, line 375 throwing
SetSubmissionsSaveFails(userId, perm, channelId) ==
    /\ SaveFails(SetSubmissionsStep(state, IsMod(userId, perm), channelId, TRUE),
                 ModReply("setsubmissions", userId, perm, userId, "OK"))
    /\ UNCHANGED <<inflight, prompts>>

\* handleReviewed, line 405 throwing
ReviewedSaveFails(userId, perm, target, reviewed) ==
    /\ SaveFails(ReviewedStep(state, IsMod(userId, perm), target, reviewed),
                 ModReply("reviewed", userId, perm, target, "OK"))
    /\ UNCHANGED <<inflight, prompts>>

\* handleRemove, line 430 throwing
RemoveSaveFails(userId, perm, target) ==
    /\ SaveFails(RemoveStep(state, IsMod(userId, perm), target),
                 ModReply("remove", userId, perm, target, "REMOVED"))
    /\ UNCHANGED <<inflight, prompts>>

\* handleButton, line 499 throwing: the map has been replaced (498), the
\* prompt keeps its buttons since interaction.update (501) is never called
ConfirmSaveFails(userId, perm, pid) ==
    LET parts == CustomId("confirm", prompts[pid].owner)
    IN /\ prompts[pid].status \in {"pending", "resolving"}
       /\ SaveFails(ButtonStep(state, userId, IsMod(userId, perm), parts),
                    [ModReply("confirm", userId, perm, parts[4], "CLEARED")
                     EXCEPT !.pid = pid])
       /\ inflight' = Orphaned(inflight)
       /\ UNCHANGED prompts

\* the program with a store that can fail, used by one member who holds the
\* permission; the targets of that member's remove and reviewed are all users
NextStore ==
    \/ \E raw \in RawNames : HandleConnect(Moderator, raw) /\ UNCHANGED lin
    \/ \E raw \in RawNames : ConnectSaveFails(Moderator, raw) /\ UNCHANGED lin
    \/ \E raw \in RawLinks : SubmitBegin(Moderator, raw) /\ UNCHANGED lin
    \/ \E i \in DOMAIN inflight, f \in FetchResults, ok \in BOOLEAN :
          SubmitResume(i, f, ok) /\ UNCHANGED lin
    \/ \E i \in DOMAIN inflight : SubmitSaveFails(i) /\ UNCHANGED lin
    \/ \E c \in Channels, isText \in BOOLEAN :
          HandleSetSubmissions(Moderator, TRUE, c, isText) /\ UNCHANGED lin
    \/ \E c \in Channels : SetSubmissionsSaveFails(Moderator, TRUE, c) /\ UNCHANGED lin
    \/ \E t \in Users, r \in BOOLEAN :
          HandleReviewed(Moderator, TRUE, t, r) /\ UNCHANGED lin
    \/ \E t \in Users, r \in BOOLEAN :
          ReviewedSaveFails(Moderator, TRUE, t, r) /\ UNCHANGED lin
    \/ \E t \in Users : HandleRemove(Moderator, TRUE, t) /\ UNCHANGED lin
    \/ \E t \in Users : RemoveSaveFails(Moderator, TRUE, t) /\ UNCHANGED lin
    \/ HandleClear(Moderator, TRUE) /\ UNCHANGED lin
    \/ \E pid \in DOMAIN prompts, a \in {"confirm", "cancel"} :
          HandleButton(Moderator, TRUE, pid, a) /\ UNCHANGED lin
    \/ \E pid \in DOMAIN prompts : ConfirmSaveFails(Moderator, TRUE, pid) /\ UNCHANGED lin
    \/ \E pid \in DOMAIN prompts : UpdateLands(pid) /\ UNCHANGED lin

SpecStore == Init /\ [][NextStore]_vars

----------------------------------------------------------------------------
(* Start of the process on a document left by an earlier version.          *)
(*                                                                         *)
(* A parsed document is a record of optional fields (Null: the field is    *)
(* absent): the lists of admitted and of pending identities that earlier   *)
(* shapes of the document carried, the player map and the channel id.      *)

\* the file does not exist or JSON.parse throws (parses = FALSE)
Unparsable ==
    [parses |-> FALSE, allowed |-> Null, pending |-> Null, players |-> Null,
     submissionsChannelId |-> Null]

\* player records found in documents
StoredPlayers ==
    {createEmptyPlayer,
     [displayName |-> Some(<<"A">>), deckLink |-> Some(<<"x">>),
      deckSubmitted |-> TRUE, deckReviewed |-> TRUE]}

StoredMaps == {<< >>} \cup {("u1" :> p) : p \in StoredPlayers}

Optional(S) == {Null} \cup {Some(v) : v \in S}

Documents ==
    {Unparsable} \cup
    [parses : {TRUE}, allowed : Optional(SUBSET Users), pending : Optional(SUBSET Users),
     players : Optional(StoredMaps), submissionsChannelId : Optional({"c1"})]

\* loadData, lines 45-64
loadData(doc) ==
    IF ~doc.parses
    THEN EmptyRegistry
    ELSE [submissionsChannelId |-> doc.submissionsChannelId,
          players |-> IF doc.players # Null THEN doc.players[1] ELSE << >>]

\* `let state = loadData()`, line 75
Load ==
    /\ last.op = "start"
    /\ state' = loadData(disk)
    /\ last' = Reply("load", "u1", "u1", "OK")
    /\ UNCHANGED <<disk, inflight, prompts, lin>>

\* saveData(state), lines 66-73, right after the load
Save ==
    /\ last.op = "load"
    /\ disk' = SavedDoc(state)
    /\ last' = Reply("save", "u1", "u1", "OK")
    /\ UNCHANGED <<state, inflight, prompts, lin>>

InitLoad ==
    /\ disk \in Documents
    /\ state = EmptyRegistry
    /\ inflight = << >>
    /\ prompts = << >>
    /\ last = Reply("start", "u1", "u1", "OK")
    /\ lin = {}

NextLoad == Load \/ Save

SpecLoad == InitLoad /\ [][NextLoad]_vars

----------------------------------------------------------------------------
(* One member, who holds the permission, with several submits suspended at *)
(* a time: the member submits again before the channel fetch of an earlier *)
(* submit has resolved.                                                    *)

NextOverlap ==
    \/ \E raw \in RawNames : HandleConnect(Moderator, raw) /\ UNCHANGED lin
    \/ \E raw \in RawLinks : SubmitBeginUpTo(Moderator, raw, MaxOverlap) /\ UNCHANGED lin
    \/ \E i \in DOMAIN inflight, f \in FetchResults, ok \in BOOLEAN :
          SubmitResume(i, f, ok) /\ UNCHANGED lin
    \/ \E c \in Channels, isText \in BOOLEAN :
          HandleSetSubmissions(Moderator, TRUE, c, isText) /\ UNCHANGED lin
    \/ \E r \in BOOLEAN : HandleReviewed(Moderator, TRUE, Moderator, r) /\ UNCHANGED lin
    \/ HandleRemove(Moderator, TRUE, Moderator) /\ UNCHANGED lin
    \/ HandleClear(Moderator, TRUE) /\ UNCHANGED lin
    \/ \E pid \in DOMAIN prompts, a \in {"confirm", "cancel"} :
          HandleButton(Moderator, TRUE, pid, a) /\ UNCHANGED lin
    \/ \E pid \in DOMAIN prompts : UpdateLands(pid) /\ UNCHANGED lin

SpecOverlap == Init /\ [][NextOverlap]_vars

----------------------------------------------------------------------------
(* Properties *)

\* the invariant of a player record
RecordOk(player) ==
    /\ (~player.deckSubmitted => player.deckLink = Null)
    /\ (player.deckLink = Null => ~player.deckReviewed)

\* C1: in every reachable registry, every player record satisfies
\* deckSubmitted = false => deckLink = null, and deckLink = null =>
\* deckReviewed = false.
C1_RecordInvariant ==
    \A u \in DOMAIN state.players : RecordOk(state.players[u])

\* C1 witness: a remove has just cleared a submission that was on file
C1_Witness ==
    /\ last.op = "remove" /\ last.result = "REMOVED"
    /\ last.target \in DOMAIN state.players
    /\ state.players[last.target].deckLink = Null

\* the operations behind the authorization gate that the code has
GatedOps == {"setsubmissions", "remove", "reviewed", "list", "clear"}

C3_ConfirmBinding ==
    [][(last'.op = "confirm" /\ last'.actor # last'.target)
         => (last'.result = "IDENTITY_MISMATCH" /\ state' = state /\ disk' = disk)]_vars

\* C3 witness: a privileged B pressed A's confirm while players were registered
C3_Witness ==
    /\ last.op = "confirm" /\ last.actor # last.target /\ last.mod
    /\ last.result = "IDENTITY_MISMATCH"
    /\ DOMAIN state.players # {}

\* C4 as stated: a confirm by the prompt's owner, still privileged, empties the
\* player map; a press of a button of a prompt that has already been resolved
\* is rejected and changes nothing.
C4_NoReentry ==
    [][(last'.op \in {"confirm", "cancel"})
         => /\ (last'.op = "confirm" /\ last'.actor = last'.target /\ last'.mod
                  /\ prompts[last'.pid].status = "pending")
               => state'.players = << >>
            /\ (prompts[last'.pid].status = "resolving")
               => (last'.result \in {"IDENTITY_MISMATCH", "UNAUTHORIZED"}
                   /\ state' = state /\ disk' = disk)]_vars

\* C5: a press by the prompt's owner whose interaction no longer carries the
\* permission is refused: registry, document and prompt stay as they were.
C5_Recheck ==
    [][(last'.op \in {"confirm", "cancel"} /\ last'.actor = last'.target /\ ~last'.mod)
         => (last'.result = "UNAUTHORIZED" /\ state' = state /\ disk' = disk
             /\ prompts' = prompts)]_vars

\* C5 witness: the owner, no longer privileged, pressed confirm while players
\* were registered
C5_Witness ==
    /\ last.op = "confirm" /\ last.actor = last.target /\ ~last.mod
    /\ last.result = "UNAUTHORIZED"
    /\ DOMAIN state.players # {}

FailureOutcomes ==
    {"UNAUTHORIZED", "NOT_CONNECTED", "NO_CHANNEL_CONFIGURED", "INVALID_CHANNEL",
     "WRONG_CHANNEL_TYPE", "NOT_SUBMITTED", "IDENTITY_MISMATCH"}

\* C6 as stated: a step that ends in a failure outcome leaves the in-memory
\* registry exactly as it was.
C6_FailureChangesNothing ==
    [][(last'.result \in FailureOutcomes) => state' = state]_vars

\* C7 as stated: whenever no handler is suspended, the document on disk equals
\* the in-memory registry.
C7_WriteThrough ==
    (inflight = << >>) => disk = SavedDoc(state)

\* C8 as stated: when a submit that was suspended at its channel fetch has
\* finished, the notification it sent and, once no submit is suspended, the
\* registry are those of some sequential execution of the operations delivered,
\* in which operations that did not overlap keep their order.
C8_Linearizable ==
    (last.op = "submit" /\ last.result \in {"OK", "ERROR", "INVALID_CHANNEL"})
      => lin # {}

\* C9 as stated: after a submit whose channel.send failed, the actor's record
\* has deckLink = link, deckSubmitted, not deckReviewed, in memory and on disk.
C9_MutationKept ==
    (last.op = "submit" /\ last.threw = "send")
      => /\ last.actor \in DOMAIN state.players
         /\ state.players[last.actor].deckLink = last.link
         /\ state.players[last.actor].deckSubmitted
         /\ ~state.players[last.actor].deckReviewed
         /\ disk = SavedDoc(state)

\* C10 as stated: a submit whose channel.send failed still replies success.
C10_SendFailureSwallowed ==
    (last.op = "submit" /\ last.threw = "send") => last.result = "OK"

\* the registries a step with reply r can leave from reg when its saveData
\* works
Mutated(reg, r) ==
    CASE r.op = "connect" ->
           {ConnectStep(reg, r.actor, raw).reg : raw \in RawNames}
      [] r.op = "submit" ->
           {reg} \cup
           {[reg EXCEPT !.players[r.actor] = SubmitEffect(@, r.link[1])] :
              x \in {u \in {r.actor} : u \in DOMAIN reg.players}}
      [] r.op = "setsubmissions" ->
           {SetSubmissionsStep(reg, TRUE, c, TRUE).reg : c \in Channels}
      [] r.op = "reviewed" ->
           {ReviewedStep(reg, TRUE, r.target, b).reg : b \in BOOLEAN}
      [] r.op = "remove" -> {RemoveStep(reg, TRUE, r.target).reg}
      [] r.op = "confirm" -> {[reg EXCEPT !.players = << >>]}
      [] OTHER -> {reg}

\* C11 as stated: a mutating operation whose saveData failed answers the
\* invoker with the store's own outcome STORE_UNAVAILABLE, not the generic
\* error of the dispatcher, and the registry in memory keeps the mutation.
C11_StoreUnavailable ==
    [][(last'.threw = "save")
         => (last'.result = "STORE_UNAVAILABLE" /\ state' \in Mutated(state, last'))]_vars

\* the second half of C11: the mutation is kept in memory, the document is not
\* written
C11_NoRollback ==
    [][(last'.threw = "save")
         => (state' \in Mutated(state, last') /\ disk' = disk)]_vars

\* a document of one of the earlier shapes: it carries a list of admitted
\* identities
Legacy(doc) == doc.parses /\ doc.allowed # Null

\* C12 as stated: when a document with a list of admitted identities is loaded
\* and saved at once, the saved document has for every admitted identity a
\* player record with registered = true, and keeps the channel id and the
\* player records the document had.
C12_MigrationRoundTrip ==
    [][(last'.op = "save" /\ Legacy(disk))
         => /\ \A u \in disk.allowed[1] :
                 /\ u \in DOMAIN disk'.players
                 /\ "registered" \in DOMAIN disk'.players[u]
                 /\ disk'.players[u].registered
            /\ disk'.submissionsChannelId = disk.submissionsChannelId
            /\ disk.players # Null
                 => \A u \in DOMAIN disk.players[1] :
                      /\ u \in DOMAIN disk'.players
                      /\ \A f \in DOMAIN disk.players[1][u] :
                           disk'.players[u][f] = disk.players[1][u][f]]_vars

\* what of C12 the code does: the channel id and the player records of the
\* document survive the round trip
C12_FieldsKept ==
    [][(last'.op = "save" /\ disk.parses)
         => /\ disk'.submissionsChannelId = disk.submissionsChannelId
            /\ disk'.players = (IF disk.players # Null THEN disk.players[1] ELSE << >>)]_vars

\* C13 as stated: a successful submit by a player whose record has
\* deckReviewed = true leaves the record with deckLink = the submitted link,
\* deckSubmitted = true and deckReviewed = false.
C13_OverwriteResetsReview ==
    [][(/\ last'.op = "submit" /\ last'.result = "OK"
        /\ last'.actor \in DOMAIN state.players
        /\ state.players[last'.actor].deckReviewed)
         => /\ state'.players[last'.actor].deckLink = last'.link
            /\ state'.players[last'.actor].deckSubmitted
            /\ ~state'.players[last'.actor].deckReviewed]_vars

\* the notification of the submit step with reply r goes to the channel now
\* configured and carries the actor's identity, the display name the registry
\* now has for the actor and the submitted link
Faithful(r) ==
    LET note == r.note[1]
    IN /\ state.submissionsChannelId = Some(note.channelId)
       /\ note.userId = r.actor
       /\ r.actor \in DOMAIN state.players
       /\ state.players[r.actor].displayName = Some(note.displayName)
       /\ r.link = Some(note.link)

\* C14 as stated: a submit sends a notification exactly when it succeeds, none
\* when it fails; the notification of a successful submit goes to the
\* configured channel and carries the actor's identity, display name and link.
C14_Notification ==
    [][(last'.op = "submit")
         => /\ (last'.note # NoNote) <=> (last'.result = "OK")
            /\ (last'.result = "OK") => Faithful(last')]_vars

\* the part of C14 that holds: a notification is sent exactly when the submit
\* succeeds, with the actor's identity and link
C14_NotifiedIffSuccess ==
    [][(last'.op = "submit")
         => /\ (last'.note # NoNote) <=> (last'.result = "OK")
            /\ (last'.result = "OK")
                 => /\ last'.note[1].userId = last'.actor
                    /\ last'.link = Some(last'.note[1].link)]_vars

\* C14 for a submit during whose channel fetch nothing else ran
C14_Uninterrupted ==
    [][(last'.op = "submit" /\ last'.result = "OK"
        /\ last.op = "submit" /\ last.result = "PENDING")
         => Faithful(last')]_vars

\* C15: a remove by a privileged actor on an identity the registry has never
\* seen replies "nothing to remove" and leaves the identity in the registry
\* with a default record; a privileged remove replies "removed" exactly when
\* the target had a submission on file before it.
C15_Remove ==
    [][(last'.op = "remove" /\ last'.mod)
         => /\ (last'.target \notin DOMAIN state.players)
                 => /\ last'.result = "NOTHING_TO_REMOVE"
                    /\ last'.target \in DOMAIN state'.players
                    /\ state'.players[last'.target] = createEmptyPlayer
            /\ (last'.result = "REMOVED")
                 <=> /\ last'.target \in DOMAIN state.players
                     /\ state.players[last'.target].deckSubmitted
            /\ last'.result \in {"REMOVED", "NOTHING_TO_REMOVE"}]_vars

\* C15 witness: a privileged remove on an empty registry was answered "nothing
\* to remove" and the registry now holds the default record of its target
C15_Witness ==
    /\ last.op = "remove" /\ last.mod /\ last.result = "NOTHING_TO_REMOVE"
    /\ state.players = (last.target :> createEmptyPlayer)

\* C16: every step except an accepted bulk-clear confirm keeps every identity
\* of the player map in the map.
C16_OnlyConfirmRemoves ==
    [][~(last'.op = "confirm" /\ last'.result = "CLEARED")
         => DOMAIN state.players \subseteq DOMAIN state'.players]_vars

\* C16 witness: a privileged remove has cleared a submission and its target is
\* still in the map, next to another identity
C16_Witness ==
    /\ last.op = "remove" /\ last.result = "REMOVED"
    /\ last.target \in DOMAIN state.players
    /\ DOMAIN state.players = Users

Rejections == {"IDENTITY_MISMATCH", "UNAUTHORIZED"}

\* the owner of prompt pid, holding the permission, presses confirm and the
\* player map is emptied
OwnerConfirms(pid) ==
    /\ HandleButton(prompts[pid].owner, TRUE, pid, "confirm")
    /\ last'.result = "CLEARED"
    /\ state'.players = << >>
    /\ UNCHANGED lin

\* the owner of prompt pid, holding the permission, presses cancel
OwnerCancels(pid) ==
    /\ HandleButton(prompts[pid].owner, TRUE, pid, "cancel")
    /\ last'.result = "CANCELLED"
    /\ UNCHANGED lin

\* C17: a rejected press (identity mismatch or failed permission re-check)
\* leaves the prompt as it was, and after it the prompt's owner, if holding the
\* permission, can still confirm it (emptying the player map) or cancel it.
C17_RejectionKeepsPrompt ==
    /\ [][(last'.op \in {"confirm", "cancel"} /\ last'.result \in Rejections)
            => prompts' = prompts]_vars
    /\ []((last.op \in {"confirm", "cancel"} /\ last.result \in Rejections)
            => /\ last.pid \in DOMAIN prompts
               /\ prompts[last.pid].owner = last.target
               /\ ENABLED OwnerConfirms(last.pid)
               /\ ENABLED OwnerCancels(last.pid))

\* C17 witness: another member's confirm press was rejected, the prompt is
\* still pending and players are registered
C17_Witness ==
    /\ last.op = "confirm" /\ last.result = "IDENTITY_MISMATCH"
    /\ last.pid \in DOMAIN prompts
    /\ prompts[last.pid].status = "pending"
    /\ DOMAIN state.players # {}

\* C18: from every reachable registry, for every actor and display name, a
\* connect followed at once by the same connect leaves the registry (the
\* actor's record, every other record and the key set) and the saved document
\* that the first connect left.
C18_ConnectIdempotent ==
    \A u \in Users, raw \in RawNames :
        LET once == ConnectStep(state, u, raw)
            twice == ConnectStep(once.reg, u, raw)
        IN /\ twice.reg = once.reg
           /\ twice.result = once.result
           /\ SavedDoc(twice.reg) = SavedDoc(once.reg)

\* C18 witness: a connect has just run on a record that holds a reviewed deck,
\* and running it again with the same name leaves the registry as it is
C18_Witness ==
    /\ last.op = "connect"
    /\ state.players[last.actor].deckReviewed
    /\ \E raw \in RawNames :
          /\ state.players[last.actor].displayName = Some(Trim(raw))
          /\ ConnectStep(state, last.actor, raw).reg = state

\* the step changed at most the record of identity u in the player map
OnlyRecordOf(u) ==
    /\ DOMAIN state.players \subseteq DOMAIN state'.players
    /\ DOMAIN state'.players \subseteq DOMAIN state.players \cup {u}
    /\ \A v \in DOMAIN state.players \ {u} : state'.players[v] = state.players[v]

\* C19: a connect, submit, remove or reviewed step changes at most the record
\* of its actor (connect, submit) or target (remove, reviewed) and leaves
\* submissionsChannelId as it was; a setsubmissions step leaves the player map
\* as it was; a confirm step leaves submissionsChannelId as it was.
C19_Frame ==
    [][/\ (last'.op \in {"connect", "submit", "remove", "reviewed"})
            => /\ OnlyRecordOf(last'.target)
               /\ state'.submissionsChannelId = state.submissionsChannelId
       /\ (last'.op \in {"connect", "submit"}) => last'.target = last'.actor
       /\ (last'.op = "setsubmissions") => state'.players = state.players
       /\ (last'.op = "confirm")
            => state'.submissionsChannelId = state.submissionsChannelId]_vars

\* C19 witness: a reviewed step has marked its target's deck while the other
\* player's submitted deck keeps the opposite mark and a channel is configured
C19_Witness ==
    /\ last.op = "reviewed" /\ last.result = "OK"
    /\ DOMAIN state.players = Users
    /\ \A u \in Users : state.players[u].deckSubmitted
    /\ \E u \in Users :
          state.players[u].deckReviewed # state.players[last.target].deckReviewed
    /\ state.submissionsChannelId # Null

\* C20 as stated: every record of the registry with deckSubmitted = true has a
\* display name that is neither null nor the empty string.
C20_SubmittedHasName ==
    \A u \in DOMAIN state.players :
        state.players[u].deckSubmitted => Truthy(state.players[u].displayName)

====
